---- MODULE Spec2Model ----
(***************************************************************************)
(* A model of the LC-3 simulator (Pyxxil/rust-lc3-sim).                    *)
(*                                                                         *)
(*   Spec       the simulator of src/src/simulator/mod.rs: new, load,      *)
(*              and the run loop execute = { fetch; step; trace }.         *)
(*   SpecCodec  the instruction codec of src/src/simulator/instruction.rs: *)
(*              sign_extend, decode (From<u16>), encode (From<Instruction>)*)
(*              applied to every 16-bit word.                              *)
(*                                                                         *)
(* 16-bit machine words are the integers 0..65535; an i16 is an integer    *)
(* -32768..32767.  Rust's `as` casts, shifts and masks are computed by the *)
(* operators of the first section.                                         *)
(***************************************************************************)
EXTENDS Integers, Sequences, FiniteSets, TLC

(***************************************************************************)
(* Machine arithmetic                                                      *)
(***************************************************************************)

\* u16 -> i16 (`as i16`): the same bit pattern read as two's complement.
AsI16(u) == IF u >= 32768 THEN u - 65536 ELSE u

\* i16 / usize -> u16 (`as u16`): the low 16 bits of the pattern.
AsU16(i) == i % 65536

\* `a & b` on non-negative patterns.
RECURSIVE BitAnd(_, _)
BitAnd(a, b) ==
    IF a = 0 \/ b = 0 THEN 0
    ELSE (a % 2) * (b % 2) + 2 * BitAnd(a \div 2, b \div 2)

\* `a | b` on non-negative patterns.
BitOr(a, b) == a + b - BitAnd(a, b)

\* `!a` on a u16.
BitNot16(a) == 65535 - a

\* `a << n` on a u16: bits shifted past bit 15 are dropped (no overflow check
\* applies to the value of a shift, only to its amount, which is < 16 here).
Shl16(a, n) == (a * (2 ^ n)) % 65536

\* `a >> n`: logical on a u16, arithmetic on an i16 (floor division).
Shr(a, n) == a \div (2 ^ n)

\* i16 + i16 leaves the i16 range: a panic when the build checks overflow
\* (debug profile), a wrap when it does not (release profile).
AddOverflowsI16(a, b) == a + b > 32767 \/ a + b < -32768

\* i16 wrapping_add, and the value of `+` in a build without overflow checks.
WrappingAddI16(a, b) == AsI16((a + b) % 65536)

(***************************************************************************)
(* Instruction codec (instruction.rs)                                      *)
(***************************************************************************)

OPCODE_BR   == \h0000
OPCODE_ADD  == \h1000
OPCODE_LD   == \h2000
OPCODE_ST   == \h3000
OPCODE_JSR  == \h4000
OPCODE_AND  == \h5000
OPCODE_LDR  == \h6000
OPCODE_STR  == \h7000
OPCODE_RTI  == \h8000
OPCODE_NOT  == \h9000
OPCODE_LDI  == \hA000
OPCODE_STI  == \hB000
OPCODE_JMP  == \hC000
RESERVED    == \hD000
OPCODE_LEA  == \hE000
OPCODE_TRAP == \hF000

\* enum Instruction: the sixteen variants, declared in opcode order.
InstructionVariants ==
    << "Branch", "Add", "Load", "Store", "JumpSubroutine", "And",
       "LoadRelative", "StoreRelative", "ReturnFromInterrupt", "Not",
       "LoadIndirect", "StoreIndirect", "Jump", "Reserved",
       "LoadEffectiveAddress", "Trap" >>

\* A sign extension that forgets the sign: the field is zero-extended.
sign_extend_unsigned(val, length) ==
    Shr(Shl16(val, 16 - length), 16 - length)

\* const fn sign_extend(val: u16, length: u16) -> i16
sign_extend(val, length) ==
    Shr(AsI16(Shl16(val, 16 - length)), 16 - length)

\* impl From<u16> for Instruction, with the Reserved arm missing.
decode_no_reserved(instruction) ==
    LET opcode == BitAnd(instruction, \hF000)
    IN  IF opcode = RESERVED
        THEN [variant |-> "unreachable"]
        ELSE [variant |-> InstructionVariants[(opcode \div 4096) + 1]]

\* impl From<u16> for Instruction
decode(instruction) ==
    LET opcode == BitAnd(instruction, \hF000)
        destination_register == BitAnd(Shr(instruction, 9), 7)
        source_register_one == BitAnd(Shr(instruction, 6), 7)
        pc_offset_9 == sign_extend(instruction, 9)
        offset_6 == sign_extend(instruction, 6)
        imm5 == sign_extend(instruction, 5)
    IN  CASE opcode = OPCODE_BR ->
               [variant |-> "Branch", nzp |-> destination_register,
                offset |-> pc_offset_9]
          [] opcode = OPCODE_ADD ->
               [variant |-> "Add", destination |-> destination_register,
                source_one |-> source_register_one,
                from_register |-> (BitAnd(instruction, \h20) = 0),
                source_two |-> imm5]
          [] opcode = OPCODE_LD ->
               [variant |-> "Load", destination |-> destination_register,
                offset |-> pc_offset_9]
          [] opcode = OPCODE_ST ->
               [variant |-> "Store", source |-> destination_register,
                offset |-> pc_offset_9]
          [] opcode = OPCODE_JSR ->
               [variant |-> "JumpSubroutine",
                from_register |-> (BitAnd(instruction, \h0800) = 0),
                offset |-> sign_extend(instruction, 11)]
          [] opcode = OPCODE_AND ->
               [variant |-> "And", destination |-> destination_register,
                source_one |-> source_register_one,
                from_register |-> (BitAnd(instruction, \h20) = 0),
                source_two |-> imm5]
          [] opcode = OPCODE_LDR ->
               [variant |-> "LoadRelative",
                destination |-> destination_register,
                source |-> source_register_one, offset |-> offset_6]
          [] opcode = OPCODE_STR ->
               [variant |-> "StoreRelative",
                source_one |-> destination_register,
                source_two |-> source_register_one, offset |-> offset_6]
          [] opcode = OPCODE_RTI ->
               [variant |-> "ReturnFromInterrupt",
                extra |-> BitAnd(instruction, \h0FFF)]
          [] opcode = OPCODE_NOT ->
               [variant |-> "Not", destination |-> destination_register,
                source |-> source_register_one,
                bit6one |-> BitAnd(AsU16(offset_6), \h3F)]
          [] opcode = OPCODE_LDI ->
               [variant |-> "LoadIndirect",
                destination |-> destination_register,
                offset |-> pc_offset_9]
          [] opcode = OPCODE_STI ->
               [variant |-> "StoreIndirect", source |-> destination_register,
                offset |-> pc_offset_9]
          [] opcode = OPCODE_JMP ->
               [variant |-> "Jump",
                bit3zero |-> BitAnd(instruction, \h0E00),
                register |-> source_register_one,
                bit6zero |-> BitAnd(AsU16(offset_6), \h3F)]
          [] opcode = RESERVED ->
               [variant |-> "Reserved", extra |-> BitAnd(instruction, \h0FFF)]
          [] opcode = OPCODE_LEA ->
               [variant |-> "LoadEffectiveAddress",
                destination |-> destination_register,
                offset |-> pc_offset_9]
          [] opcode = OPCODE_TRAP ->
               [variant |-> "Trap", extra |-> BitAnd(instruction, \h0F00),
                vector |-> BitAnd(instruction, \h00FF)]
          [] OTHER -> [variant |-> "unreachable"]

\* impl From<Instruction> for u16
encode(instruction) ==
    LET i == instruction
        Reg9(r) == AsU16(r * 512)      \* (r << 9) as u16
        Reg6(r) == AsU16(r * 64)       \* (r << 6) as u16
        Low(offset, mask) == BitAnd(AsU16(offset), mask)
    IN  CASE i.variant = "Branch" ->
               BitOr(Reg9(i.nzp), Low(i.offset, \h1FF))
          [] i.variant = "Add" ->
               BitOr(BitOr(BitOr(BitOr(\h1000, Reg9(i.destination)),
                                 Reg6(i.source_one)),
                           IF i.from_register THEN 0 ELSE \h20),
                     Low(i.source_two, \h1F))
          [] i.variant = "Load" ->
               BitOr(BitOr(\h2000, Reg9(i.destination)), Low(i.offset, \h1FF))
          [] i.variant = "Store" ->
               BitOr(BitOr(\h3000, Reg9(i.source)), Low(i.offset, \h1FF))
          [] i.variant = "JumpSubroutine" ->
               BitOr(\h4000,
                     IF i.from_register
                     THEN Shr(Low(i.offset, \h01C0), 6)
                     ELSE BitOr(\h0800, Low(i.offset, \h7FF)))
          [] i.variant = "And" ->
               BitOr(BitOr(BitOr(BitOr(\h5000, Reg9(i.destination)),
                                 Reg6(i.source_one)),
                           IF i.from_register THEN 0 ELSE \h20),
                     Low(i.source_two, \h1F))
          [] i.variant = "LoadRelative" ->
               BitOr(BitOr(BitOr(\h6000, Reg9(i.destination)),
                           Reg6(i.source)),
                     Low(i.offset, \h3F))
          [] i.variant = "StoreRelative" ->
               BitOr(BitOr(BitOr(\h7000, Reg9(i.source_one)),
                           Reg6(i.source_two)),
                     Low(i.offset, \h3F))
          [] i.variant = "ReturnFromInterrupt" -> BitOr(\h8000, i.extra)
          [] i.variant = "Not" ->
               BitOr(BitOr(BitOr(\h9000, Reg9(i.destination)),
                           Reg6(i.source)),
                     i.bit6one)
          [] i.variant = "LoadIndirect" ->
               BitOr(BitOr(\hA000, Reg9(i.destination)), Low(i.offset, \h1FF))
          [] i.variant = "StoreIndirect" ->
               BitOr(BitOr(\hB000, Reg9(i.source)), Low(i.offset, \h1FF))
          [] i.variant = "Jump" ->
               BitOr(BitOr(BitOr(\hC000, i.bit3zero), Reg6(i.register)),
                     i.bit6zero)
          [] i.variant = "Reserved" -> BitOr(\hD000, i.extra)
          [] i.variant = "LoadEffectiveAddress" ->
               BitOr(BitOr(\hE000, Reg9(i.destination)), AsU16(i.offset))
          [] i.variant = "Trap" ->
               BitOr(BitOr(\hF000, i.extra), BitAnd(i.vector, \h00FF))

(***************************************************************************)
(* Simulator (mod.rs): constants and pure helpers                          *)
(***************************************************************************)

CLK  == \hFFFE
KBSR == \hFE00
KBDR == \hFE02
DSR  == \hFE04
DDR  == \hFE06

BR_OPCODE   == \h0000
ADD_OPCODE  == \h1000
LD_OPCODE   == \h2000
ST_OPCODE   == \h3000
JSR_OPCODE  == \h4000
AND_OPCODE  == \h5000
LDR_OPCODE  == \h6000
STR_OPCODE  == \h7000
RTI_OPCODE  == \h8000
NOT_OPCODE  == \h9000
LDI_OPCODE  == \hA000
STI_OPCODE  == \hB000
JMP_OPCODE  == \hC000
RESERVED_OP == \hD000
LEA_OPCODE  == \hE000
TRAP_OPCODE == \hF000

\* memory: [u16; 0xFFFF] has the indices 0..0xFFFE; indexing it at 0xFFFF
\* panics ("index out of bounds") in every build profile.
MEMORY_LEN == \hFFFF

\* The array is held as the function of the cells written so far; a cell
\* never written holds the 0 the array was created with.
MemGet(mem, addr) == IF addr \in DOMAIN mem THEN mem[addr] ELSE 0

MemSet(mem, addr, value) ==
    [a \in (DOMAIN mem) \cup {addr} |-> IF a = addr THEN value ELSE mem[a]]

\* The inline sign extensions of step: (((ir & mask) << k) as i16) >> k.
step_offset9(ir) == Shr(AsI16(Shl16(BitAnd(ir, \h1FF), 7)), 7)
step_imm5(ir)    == Shr(AsI16(Shl16(BitAnd(ir, \h1F), 11)), 11)
step_offset6(ir) == Shr(AsI16(Shl16(BitAnd(ir, \h3F), 10)), 10)

\* update_condition_code with the sign test inverted.
update_condition_code_swapped(value) ==
    IF value = 0 THEN "Z"
    ELSE IF BitAnd(value, \h8000) = 0 THEN "N" ELSE "P"

\* fn update_condition_code(&mut self, value: u16): the new condition code.
update_condition_code(value) ==
    IF value = 0 THEN "Z"
    ELSE IF BitAnd(value, \h8000) = 0 THEN "P" ELSE "N"

\* impl Read for Reader: one read into a 1-byte buffer.  A file-backed reader
\* holds the bytes not yet consumed; a keyboard reader holds the outcomes of
\* its coming polls (a byte, or -1 for "no key event"), and polls that follow
\* them find no event.  Both end in Ok(0) when there is nothing to deliver.
reader_read(reader) ==
    IF reader.data = << >>
    THEN [count |-> 0, byte |-> 0, reader |-> reader]
    ELSE IF reader.kind = "Keyboard" /\ Head(reader.data) < 0
    THEN [count |-> 0, byte |-> 0,
          reader |-> [reader EXCEPT !.data = Tail(reader.data)]]
    ELSE [count |-> 1, byte |-> Head(reader.data),
          reader |-> [reader EXCEPT !.data = Tail(reader.data)]]

\* read_memory whose KBSR arm latches the byte without taking it from the
\* input.
read_memory_no_consume(mem, reader, address) ==
    IF address = KBSR
    THEN LET r == reader_read(reader)
         IN  IF r.count # 0
             THEN [value |-> \h8000, memory |-> MemSet(mem, KBDR, r.byte),
                   input |-> reader, panic |-> FALSE]
             ELSE [value |-> 0, memory |-> mem, input |-> r.reader,
                   panic |-> FALSE]
    ELSE IF address = DDR \/ address < MEMORY_LEN
    THEN [value |-> IF address = DDR THEN 0 ELSE MemGet(mem, address),
          memory |-> mem, input |-> reader, panic |-> FALSE]
    ELSE [value |-> 0, memory |-> mem, input |-> reader, panic |-> TRUE]

\* fn read_memory(&mut self, address: u16) -> u16: the value returned, the
\* memory and input after the call, and whether the call panicked.
read_memory(mem, reader, address) ==
    CASE address = DDR ->
           [value |-> 0, memory |-> mem, input |-> reader, panic |-> FALSE]
      [] address = KBSR ->
           LET r == reader_read(reader)
           IN  IF r.count # 0
               THEN [value |-> \h8000, memory |-> MemSet(mem, KBDR, r.byte),
                     input |-> r.reader, panic |-> FALSE]
               ELSE [value |-> 0, memory |-> mem, input |-> r.reader,
                     panic |-> FALSE]
      [] address = KBDR ->
           [value |-> MemGet(mem, KBDR), memory |-> mem, input |-> reader,
            panic |-> FALSE]
      [] OTHER ->
           IF address >= MEMORY_LEN
           THEN [value |-> 0, memory |-> mem, input |-> reader,
                 panic |-> TRUE]
           ELSE [value |-> MemGet(mem, address), memory |-> mem,
                 input |-> reader, panic |-> FALSE]

\* The bytes of format!("{}{}", if value & 0xFF == 0xA { "\r" } else { "" },
\* (value & 0xFF) as u8 as char): a char below 0x80 is one UTF-8 byte, a char
\* 0x80..0xFF is two.
ddr_bytes(value) ==
    LET low == BitAnd(value, \hFF)
    IN  (IF low = 10 THEN << 13 >> ELSE << >>)
        \o (IF low < 128 THEN << low >>
            ELSE << 192 + (low \div 64), 128 + (low % 64) >>)

\* impl Write for Writer: fn write(&mut self, buf: &[u8]).  The sink (the
\* terminal or the file) takes the bytes or fails (sink_ok); either way the
\* match arm is `_ => {}` and write returns Ok(s.len()).  The Writer is
\* modelled by the bytes its sink has received, whether the sink failed on the
\* last write, and whether write returned that failure to its caller.
writer_write(disp, bytes, sink_ok) ==
    [received |-> IF sink_ok THEN disp.received \o bytes ELSE disp.received,
     sink_error |-> ~sink_ok,
     returned_error |-> FALSE]

\* write_memory whose DDR arm leaves the value written in memory[DDR].
write_memory_keeps_ddr(mem, disp, address, value, sink_ok) ==
    IF address \in {KBSR, KBDR, DSR}
    THEN [memory |-> mem, display |-> disp, panic |-> FALSE]
    ELSE IF address = DDR
    THEN [memory |-> MemSet(MemSet(mem, DDR, value), DSR, \h8000),
          display |-> writer_write(disp, ddr_bytes(value), sink_ok),
          panic |-> FALSE]
    ELSE IF address >= MEMORY_LEN
    THEN [memory |-> mem, display |-> disp, panic |-> TRUE]
    ELSE [memory |-> MemSet(mem, address, value), display |-> disp,
          panic |-> FALSE]

\* write_memory without the arm `KBSR | KBDR | DSR => {}`: the three
\* addresses are stored to like any other.
write_memory_stores_status(mem, disp, address, value, sink_ok) ==
    IF address = DDR
    THEN [memory |-> MemSet(MemSet(mem, DDR, 0), DSR, \h8000),
          display |-> writer_write(disp, ddr_bytes(value), sink_ok),
          panic |-> FALSE]
    ELSE IF address >= MEMORY_LEN
    THEN [memory |-> mem, display |-> disp, panic |-> TRUE]
    ELSE [memory |-> MemSet(mem, address, value), display |-> disp,
          panic |-> FALSE]

\* pub fn write_memory(&mut self, address: u16, value: u16): the memory and
\* display after the call, and whether the call panicked.  Writer::write
\* always returns Ok, so the unwrap never fails.
write_memory(mem, disp, address, value, sink_ok) ==
    CASE address \in {KBSR, KBDR, DSR} ->
           [memory |-> mem, display |-> disp, panic |-> FALSE]
      [] address = DDR ->
           [memory |-> MemSet(MemSet(mem, DDR, 0), DSR, \h8000),
            display |-> writer_write(disp, ddr_bytes(value), sink_ok),
            panic |-> FALSE]
      [] OTHER ->
           IF address >= MEMORY_LEN
           THEN [memory |-> mem, display |-> disp, panic |-> TRUE]
           ELSE [memory |-> MemSet(mem, address, value), display |-> disp,
                 panic |-> FALSE]

\* wants without the user-space test.
wants_any_address(t, instruction, pc) ==
    t.kind # "NoTrace" /\ BitAnd(t.want, 2 ^ instruction) # 0

\* impl Trace for Tracer: fn wants(&self, instruction: u16, pc: u16) -> bool
wants(t, instruction, pc) ==
    IF t.kind = "NoTrace" THEN FALSE
    ELSE /\ (~t.userspace \/ pc >= \h3000)
         /\ BitAnd(t.want, 2 ^ instruction) # 0

(***************************************************************************)
(* Bounds and the inputs drawn                                             *)
(***************************************************************************)

\* The run loop is followed for at most this many fetch-execute-trace cycles.
MaxCycles == 8

\* The input file holds at most this many bytes.
MaxInput == 2

\* The input file "23..." of the Reader's documentation: bytes 0x32, 0x33, ...
InputByte(i) == 49 + i

InputFiles ==
    { [kind |-> "InFile", data |-> [i \in 1..n |-> InputByte(i)]] :
        n \in 0..MaxInput }

\* A keyboard whose first poll finds no event and whose second finds 'A'.
KeyboardScripts == { [kind |-> "Keyboard", data |-> << -1, 65 >>] }

Readers == InputFiles \cup KeyboardScripts

Tracers ==
    { [kind |-> "NoTrace", want |-> 0, userspace |-> FALSE],
      [kind |-> "TraceFile", want |-> \hFFFF, userspace |-> TRUE] }

\* An object file: the origin, then the words, each as a big-endian byte pair.
ImageBytes(origin, words) ==
    [k \in 1..(2 * Len(words) + 2) |->
        LET w == IF k <= 2 THEN origin ELSE words[(k - 1) \div 2]
        IN  IF k % 2 = 1 THEN w \div 256 ELSE w % 256]

\* An operating system that serves TRAP x25 (HALT) only: the vector, and the
\* routine  AND R0,R0,#0 ; STI R0,#1 ; BRnzp #-1 ; .FILL xFFFE  which clears
\* the clock register.
OSImages ==
    { ImageBytes(\h0025, << \h0026, \h5020, \hB001, \h0FFF, \hFFFE >>) }

\* The instruction words tried: every opcode, both modes of ADD, AND and JSR,
\* negative and non-negative offsets.
InstructionWords ==
    { \h0000, \h0801, \h0401, \h0201, \h0E01, \h0FFD,     \* BR
      \h1440, \h1461, \h147F,                             \* ADD R2,R1,..
      \h2401, \h25FF,                                     \* LD  R2
      \h3001, \h31FF,                                     \* ST  R0
      \h4801, \h4FFE, \h4900, \h4040, \h41C0,             \* JSR, JSRR
      \h5440, \h5460, \h547F,                             \* AND R2,R1,..
      \h6440, \h6441, \h647F,                             \* LDR R2,R1,..
      \h7040, \h7041, \h707F,                             \* STR R0,R1,..
      \h8000,                                             \* RTI
      \h947F,                                             \* NOT R2,R1
      \hA401,                                             \* LDI R2
      \hB001,                                             \* STI R0
      \hC040, \hC1C0,                                     \* JMP R1, RET
      \hD000, \hD123,                                     \* reserved
      \hE401, \hE5FF,                                     \* LEA R2
      \hF025, \hF000, \hF0FF }                            \* TRAP

\* The values the program loads into R1.
DataWords ==
    { 0, 1, \h3004, \h7FFF, \h8000, \hFFFF, CLK, KBSR, KBDR, DSR, DDR }

\* ADD R0,R0,#imm for imm in {0, 1, -1}: leaves R0 = imm and the condition
\* code Zero, Positive or Negative.
SetR0Words == { \h1020, \h1021, \h103F }

\* A user program at x3000:
\*   LD R1,#3 ; ADD R0,R0,#imm ; <w> ; BRnzp #-2 ; .FILL d
UserPrograms ==
    { ImageBytes(\h3000, << \h2203, a, w, \h0FFE, d >>) :
        a \in SetR0Words, w \in InstructionWords, d \in DataWords }

\* A one-word program whose PC-relative address is computed across the
\* boundary between x7FFF and x8000.
BoundaryWords == { \h0E01, \h0FFF, \h2401, \h25FF, \h3001, \hE401, \h4801 }

BoundaryPrograms ==
    { ImageBytes(o, << w >>) : o \in {\h7FFE, \h7FFF}, w \in BoundaryWords }

\* A program that works the device registers, with R1 = KBSR as the base:
\*   LD R0,#4 ; LD R1,#4 ; <w1> ; <w2> ; BRnzp #-3 ; .FILL v ; .FILL xFE00
\* where w1 and w2 are LDR R2,R1,#k or STR R0,R1,#k for k in {0, 2, 4, 6},
\* the offsets of KBSR, KBDR, DSR and DDR.
DeviceWords ==
    { \h6440, \h6442, \h6444, \h6446, \h7040, \h7042, \h7044, \h7046 }

\* The values stored: 'A', line feed, a word with a low byte above 0x7F.
OutputWords == { \h0041, \h000A, \h12E9 }

DevicePrograms ==
    { ImageBytes(\h3000, << \h2004, \h2204, w1, w2, \h0FFD, v, KBSR >>) :
        w1 \in DeviceWords, w2 \in DeviceWords, v \in OutputWords }

\* The trap vectors: (self.instruction_register & 0xFF)
TrapVectors == 0..\hFF

\* One-word programs TRAP x00 .. TRAP xFF.
TrapPrograms ==
    { ImageBytes(\h3000, << TRAP_OPCODE + v >>) : v \in TrapVectors }

\* Images at the top of the address space, and images that lie over the
\* operating system's.
TopImages ==
    { ImageBytes(\hFFFF, << >>), ImageBytes(\hFFFF, << \h1021 >>),
      ImageBytes(\hFFFE, << \h8000, \h1021 >>),
      ImageBytes(\hFFFD, << \h1021, \h8000 >>) }

OverlayImages ==
    { ImageBytes(\h0028, << \h1021, \hFE06 >>),
      ImageBytes(\h0024, << \hF025, \h0028 >>) }

\* Files that are not images: empty, one byte, and a last word cut in half.
TruncatedImages ==
    { << >>, << \h30 >>, << \h30, \h00, \h10 >>,
      ImageBytes(\h3000, << \h1021 >>) \o << \hF0 >> }

\* AND R0,R0,#0 ; ADD R0,R0,#5 ; ADD R0,R0,#3 ; TRAP x25
\* LEA R1,#-1 ; LDR R2,R1,#-1 ; STR R1,R1,#-1 ; TRAP x25   (R1 = x3000)
ScenarioPrograms ==
    { ImageBytes(\h3000, << \h5020, \h1025, \h1023, \hF025 >>),
      ImageBytes(\h3000, << \hE3FF, \h647F, \h727F, \hF025 >>) }

Programs ==
    UserPrograms \cup BoundaryPrograms \cup DevicePrograms \cup TrapPrograms
    \cup TopImages \cup OverlayImages \cup TruncatedImages
    \cup ScenarioPrograms

\* A file as load sees it: whether File::open and read_to_end succeed, and
\* the bytes read.
File(buffer) == [opened |-> TRUE, buffer |-> buffer]
MissingFile == [opened |-> FALSE, buffer |-> << >>]

OSFiles == { File(b) : b \in OSImages } \cup { MissingFile }

\* --data files: an image that lies over DSR (0, not ready) and DDR.
DataFiles ==
    { File(ImageBytes(DSR, << \h0000, \h0000, \h1234 >>)), MissingFile }

\* After it, the programs that read DSR and DDR and write DDR.
DisplayPrograms ==
    { ImageBytes(\h3000, << \h2004, \h2204, w1, w2, \h0FFD, \h0041, KBSR >>) :
        w1 \in {\h6444, \h6446, \h7046}, w2 \in {\h6444, \h6446, \h7046} }

ProgramFiles == { File(b) : b \in Programs } \cup { MissingFile }

\* The program files tried after a data file.
AfterDataFiles ==
    { File(b) : b \in DisplayPrograms \cup OverlayImages \cup TruncatedImages }
    \cup { MissingFile }

(***************************************************************************)
(* State                                                                   *)
(***************************************************************************)

VARIABLES
    memory,                 \* Simulator.memory (see MemGet)
    registers,              \* Simulator.registers
    program_counter,        \* Simulator.program_counter
    instruction_register,   \* Simulator.instruction_register
    condition_code,         \* Simulator.condition_code: "N", "Z" or "P"
    input,                  \* Simulator.input: the Reader
    display,                \* Simulator.display: the Writer (see writer_write)
    tracer,                 \* Simulator.tracer
    trace_log,              \* the snapshots written to the trace file
    loc,                    \* where control is: "new", "os", the run loop's
                            \* "clock", "fetch", "step", "trace", or the ends
                            \* "halted" (execute returned), "panicked"
                            \* (in the loop), "load_error" (main got Err
                            \* from load), "load_panicked"; "os" and "data"
                            \* after those loads
    overflow_checks,        \* the build panics on integer overflow
    panic_cause,            \* "none", "overflow", "index" (memory), "buffer"
                            \* (image bytes), "expect", "explicit"
    cycles,                 \* loop iterations started
    fetched_from,           \* address of the instruction last fetched
    bus,                    \* read_memory / write_memory calls of the last step
    latched,                \* the KBDR contents after each KBSR read that
                            \* returned 0x8000, in order
    kbdr_reads,             \* read_memory(KBDR) calls since the last of them
    images,                 \* the files load has been called with, in order
    word,                   \* codec: the word under conversion
    cstage,                 \* codec: "idle", "word", "extended", "decoded", "encoded"
    extended,               \* codec: the sign extensions of word
    instr,                  \* codec: decode(word)
    encoded,                \* codec: encode(instr)
    predictor,              \* the Predictor
    outcomes,               \* the Branch outcomes it has been given
    prediction,             \* what predicts_branch returned for the present
                            \* state: "taken", "not_taken", or "none"
    file_reader,            \* a file-backed Reader on its own: its revision,
                            \* its file and the bytes not yet read
    reads,                  \* the results of its read calls
    mnemonics,              \* the --instr option: absent, or its values
    mask                    \* the mask each tracer constructor made of it

sim_vars ==
    << memory, registers, program_counter, instruction_register,
       condition_code, input, display, tracer, trace_log, loc,
       overflow_checks, panic_cause, cycles, fetched_from, bus, latched,
       kbdr_reads, images >>

codec_vars == << word, cstage, extended, instr, encoded >>

unit_vars ==
    << predictor, outcomes, prediction, file_reader, reads, mnemonics,
       mask >>

vars == << sim_vars, codec_vars, unit_vars >>

\* Simulator::new(input, display, tracer)
new(reader, t) ==
    /\ memory = MemSet(MemSet(<< >>, CLK, \h8000), DSR, \h8000)
    /\ registers = [i \in 0..7 |-> 0]
    /\ program_counter = 0
    /\ instruction_register = 0
    /\ condition_code = "Z"
    /\ input = reader
    /\ display = [received |-> << >>, sink_error |-> FALSE,
                  returned_error |-> FALSE]
    /\ tracer = t
    /\ trace_log = << >>

\* The Predictor, Reader and tracer constructors, while not in use.
UnitIdle ==
    /\ predictor = "NotTaken"
    /\ outcomes = << >>
    /\ prediction = "none"
    /\ file_reader = [revision |-> "none", file |-> << >>, data |-> << >>]
    /\ reads = << >>
    /\ mnemonics = [given |-> FALSE, values |-> << >>]
    /\ mask = [main |-> -1, bin |-> -1, from |-> -1]

CodecIdle ==
    /\ word = 0
    /\ cstage = "idle"
    /\ extended = << >>
    /\ instr = [variant |-> "None"]
    /\ encoded = 0

Init ==
    /\ \E reader \in Readers, t \in Tracers : new(reader, t)
    /\ overflow_checks \in BOOLEAN
    /\ loc = "new"
    /\ panic_cause = "none"
    /\ cycles = 0
    /\ fetched_from = 0
    /\ bus = << >>
    /\ latched = << >>
    /\ kbdr_reads = 0
    /\ images = << >>
    /\ CodecIdle
    /\ UnitIdle

(***************************************************************************)
(* Loading                                                                 *)
(***************************************************************************)

\* The for_each of load: the words of buffer from byte index i (0-based) on,
\* stored from addr on.  The right-hand side is evaluated first, so
\* buffer[i + 1] past the end panics before memory[0xFFFF] does.
RECURSIVE LoadWords(_, _, _, _)
LoadWords(mem, buffer, i, addr) ==
    IF i >= Len(buffer) THEN [panic |-> "none", memory |-> mem]
    ELSE IF i + 1 >= Len(buffer) THEN [panic |-> "buffer", memory |-> mem]
    ELSE IF addr >= MEMORY_LEN THEN [panic |-> "index", memory |-> mem]
    ELSE LoadWords(MemSet(mem, addr, buffer[i + 1] * 256 + buffer[i + 2]),
                   buffer, i + 2, addr + 1)

\* pub fn load(mut self, file: &str) -> Result<Self, String>: "Err" when the
\* file does not open, a panic when buffer[0] or buffer[1] does not exist or
\* the for_each panics, else "Ok" with the memory and program counter set.
load(mem, pc, file) ==
    IF ~file.opened
    THEN [result |-> "Err", panic |-> "none", memory |-> mem,
          program_counter |-> pc]
    ELSE IF Len(file.buffer) < 2
    THEN [result |-> "panic", panic |-> "buffer", memory |-> mem,
          program_counter |-> pc]
    ELSE LET addr == file.buffer[1] * 256 + file.buffer[2]
             r == LoadWords(mem, file.buffer, 2, addr)
         IN  [result |-> IF r.panic = "none" THEN "Ok" ELSE "panic",
              panic |-> r.panic, memory |-> r.memory,
              program_counter |-> addr]

\* What the three callers of load leave untouched.
LoadFrame ==
    UNCHANGED << registers, instruction_register, condition_code, input,
                 display, tracer, trace_log, overflow_checks, cycles,
                 fetched_from, bus, latched, kbdr_reads, codec_vars,
                 unit_vars >>

\* with_operating_system(file) = load(file).expect("Unable to load file"):
\* an Err of load is a panic here.
LoadOS ==
    /\ loc = "new"
    /\ \E file \in OSFiles :
         LET r == load(memory, program_counter, file)
         IN  /\ images' = Append(images, file)
             /\ memory' = r.memory
             /\ program_counter' = r.program_counter
             /\ loc' = IF r.result = "Ok" THEN "os" ELSE "load_panicked"
             /\ panic_cause' = CASE r.result = "Ok" -> panic_cause
                                 [] r.result = "Err" -> "expect"
                                 [] OTHER -> r.panic
    /\ LoadFrame

\* main: the fold over the --data files: Err(e) => { println!(..); panic!() }
LoadData ==
    /\ loc = "os"
    /\ \E file \in DataFiles :
         LET r == load(memory, program_counter, file)
         IN  /\ images' = Append(images, file)
             /\ memory' = r.memory
             /\ program_counter' = r.program_counter
             /\ loc' = IF r.result = "Ok" THEN "data" ELSE "load_panicked"
             /\ panic_cause' = CASE r.result = "Ok" -> panic_cause
                                 [] r.result = "Err" -> "explicit"
                                 [] OTHER -> r.panic
    /\ LoadFrame

\* main: simulator.load(file): Ok => execute(), Err(e) => println!(..)
LoadProgram ==
    /\ loc \in {"os", "data"}
    /\ \E file \in (IF loc = "os" THEN ProgramFiles ELSE AfterDataFiles) :
         LET r == load(memory, program_counter, file)
         IN  /\ images' = Append(images, file)
             /\ memory' = r.memory
             /\ program_counter' = r.program_counter
             /\ loc' = CASE r.result = "Ok" -> "clock"
                         [] r.result = "Err" -> "load_error"
                         [] OTHER -> "load_panicked"
             /\ panic_cause' = r.panic
    /\ LoadFrame

(***************************************************************************)
(* The run loop: execute                                                   *)
(***************************************************************************)

\* while self.read_memory(CLK as u16) & 0x8000 != 0
CheckClock ==
    /\ loc = "clock"
    /\ cycles < MaxCycles
    /\ LET r == read_memory(memory, input, CLK)
       IN  /\ loc' = IF BitAnd(r.value, \h8000) # 0 THEN "fetch" ELSE "halted"
           /\ cycles' = IF BitAnd(r.value, \h8000) # 0
                        THEN cycles + 1 ELSE cycles
           /\ memory' = r.memory
           /\ input' = r.input
    /\ UNCHANGED << registers, program_counter, instruction_register,
                    condition_code, display, tracer, trace_log,
                    overflow_checks, panic_cause, fetched_from, bus,
                    latched, kbdr_reads, images, codec_vars,
                    unit_vars >>

\* fn fetch(&mut self): the array is indexed directly.
Fetch ==
    /\ loc = "fetch"
    /\ IF program_counter >= MEMORY_LEN
       THEN /\ loc' = "panicked"
            /\ panic_cause' = "index"
            /\ UNCHANGED << instruction_register, program_counter,
                            fetched_from >>
       ELSE /\ instruction_register' = MemGet(memory, program_counter)
            /\ program_counter' = (program_counter + 1) % 65536
            /\ fetched_from' = program_counter
            /\ loc' = "step"
            /\ UNCHANGED panic_cause
    /\ UNCHANGED << memory, registers, condition_code, input, display, tracer,
                    trace_log, overflow_checks, cycles, bus, latched,
                    kbdr_reads, images, codec_vars,
                    unit_vars >>

\* fn trace(&mut self)
Trace ==
    /\ loc = "trace"
    /\ trace_log' =
         IF wants(tracer, Shr(BitAnd(instruction_register, \hF000), 12),
                  program_counter)
         THEN Append(trace_log,
                     [ir |-> instruction_register, registers |-> registers,
                      pc |-> program_counter, cc |-> condition_code])
         ELSE trace_log
    /\ loc' = "clock"
    /\ UNCHANGED << memory, registers, program_counter, instruction_register,
                    condition_code, input, display, tracer, overflow_checks,
                    panic_cause, cycles, fetched_from, bus, latched,
                    kbdr_reads, images, codec_vars,
                    unit_vars >>

(***************************************************************************)
(* fn step(&mut self): one action per arm of the match on the opcode       *)
(***************************************************************************)

Opcode(ir) == BitAnd(ir, \hF000)

\* (ir & 0x0E00) >> 9 and (ir & 0x01C0) >> 6
RegHigh(ir) == Shr(BitAnd(ir, \h0E00), 9)
RegMid(ir)  == Shr(BitAnd(ir, \h01C0), 6)

\* What step leaves untouched in every arm.
StepFrame ==
    UNCHANGED << instruction_register, tracer, trace_log, overflow_checks,
                 cycles, fetched_from, images, codec_vars, unit_vars >>

Read(address, value)  == [op |-> "read", address |-> address, value |-> value]
Write(address, value) == [op |-> "write", address |-> address, value |-> value]

\* The record of the keyboard latch after the accesses of one step: a KBSR
\* read that returned 0x8000 has left its byte in memory[KBDR].  (One step
\* makes at most one such read: LDI's second address is the value of its
\* first read, and a KBSR read returns 0x8000 or 0.)
Latched(accesses, mem) ==
    IF \E k \in DOMAIN accesses : accesses[k] = Read(KBSR, \h8000)
    THEN Append(latched, MemGet(mem, KBDR))
    ELSE latched

\* The count of KBDR reads since the last latch, after the accesses of a step.
RECURSIVE KbdrReads(_, _)
KbdrReads(n, accesses) ==
    IF accesses = << >> THEN n
    ELSE LET a == Head(accesses)
         IN  KbdrReads(CASE a = Read(KBSR, \h8000) -> 0
                         [] a.op = "read" /\ a.address = KBDR -> n + 1
                         [] OTHER -> n,
                       Tail(accesses))

\* The arm ran to its end.
StepDone(regs, cc, pc, mem, reader, disp, accesses) ==
    /\ registers' = regs
    /\ condition_code' = cc
    /\ program_counter' = pc
    /\ memory' = mem
    /\ input' = reader
    /\ display' = disp
    /\ bus' = accesses
    /\ latched' = Latched(accesses, mem)
    /\ kbdr_reads' = KbdrReads(kbdr_reads, accesses)
    /\ loc' = "trace"
    /\ UNCHANGED panic_cause
    /\ StepFrame

\* The arm panicked; regs, mem and reader are what it had changed by then.
StepPanic(cause, regs, mem, reader, accesses) ==
    /\ registers' = regs
    /\ memory' = mem
    /\ input' = reader
    /\ bus' = accesses
    /\ latched' = Latched(accesses, mem)
    /\ kbdr_reads' = KbdrReads(kbdr_reads, accesses)
    /\ loc' = "panicked"
    /\ panic_cause' = cause
    /\ UNCHANGED << condition_code, program_counter, display >>
    /\ StepFrame

\* (self.program_counter as i16 + offset) as u16, where it does not panic.
PcPlus(offset) == AsU16(AsI16(program_counter) + offset)
PcOverflow(offset) ==
    overflow_checks /\ AddOverflowsI16(AsI16(program_counter), offset)

StepBR ==
    /\ loc = "step"
    /\ Opcode(instruction_register) = BR_OPCODE
    /\ LET n == BitAnd(instruction_register, \h0800) # 0
           z == BitAnd(instruction_register, \h0400) # 0
           p == BitAnd(instruction_register, \h0200) # 0
           offset == step_offset9(instruction_register)
           taken == \/ (n /\ condition_code = "N")
                    \/ (z /\ condition_code = "Z")
                    \/ (p /\ condition_code = "P")
       IN  IF taken /\ PcOverflow(offset)
           THEN StepPanic("overflow", registers, memory, input, << >>)
           ELSE StepDone(registers, condition_code,
                         IF taken THEN PcPlus(offset) ELSE program_counter,
                         memory, input, display, << >>)

\* The second operand with the immediate taken as an unsigned 5-bit number.
SourceTwo_zero_extended(ir) ==
    IF BitAnd(ir, \h20) = 0
    THEN AsI16(registers[BitAnd(ir, \h0007)])
    ELSE BitAnd(ir, \h1F)

\* The second operand of ADD and AND.
SourceTwo(ir) ==
    IF BitAnd(ir, \h20) = 0
    THEN AsI16(registers[BitAnd(ir, \h0007)])
    ELSE step_imm5(ir)

StepADD ==
    /\ loc = "step"
    /\ Opcode(instruction_register) = ADD_OPCODE
    /\ LET destination_register == RegHigh(instruction_register)
           source_one == AsI16(registers[RegMid(instruction_register)])
           source_two == SourceTwo(instruction_register)
           result == AsU16(WrappingAddI16(source_one, source_two))
       IN  StepDone([registers EXCEPT ![destination_register] = result],
                    update_condition_code(result), program_counter, memory,
                    input, display, << >>)

StepLD ==
    /\ loc = "step"
    /\ Opcode(instruction_register) = LD_OPCODE
    /\ LET destination_register == RegHigh(instruction_register)
           offset == step_offset9(instruction_register)
           address == PcPlus(offset)
           r == read_memory(memory, input, address)
       IN  IF PcOverflow(offset)
           THEN StepPanic("overflow", registers, memory, input, << >>)
           ELSE IF r.panic
           THEN StepPanic("index", registers, memory, input, << >>)
           ELSE StepDone([registers EXCEPT ![destination_register] = r.value],
                         update_condition_code(r.value), program_counter,
                         r.memory, r.input, display,
                         << Read(address, r.value) >>)

StepST ==
    /\ loc = "step"
    /\ Opcode(instruction_register) = ST_OPCODE
    /\ \E sink_ok \in BOOLEAN :
       LET destination_register == RegHigh(instruction_register)
           offset == step_offset9(instruction_register)
           address == PcPlus(offset)
           value == registers[destination_register]
           w == write_memory(memory, display, address, value, sink_ok)
       IN  IF PcOverflow(offset)
           THEN StepPanic("overflow", registers, memory, input, << >>)
           ELSE IF w.panic
           THEN StepPanic("index", registers, memory, input, << >>)
           ELSE StepDone(registers, condition_code, program_counter,
                         w.memory, input, w.display,
                         << Write(address, value) >>)

\* JSR that links through a register write which updates the condition
\* code, as the writes of ADD or LD do.
StepJSR_updates_cc ==
    /\ loc = "step"
    /\ Opcode(instruction_register) = JSR_OPCODE
    /\ LET linked == [registers EXCEPT ![7] = program_counter]
           offset == step_offset9(instruction_register)
           cc == update_condition_code(program_counter)
       IN  IF BitAnd(instruction_register, \h0800) = 0
           THEN StepDone(linked, cc,
                         linked[RegMid(instruction_register)], memory, input,
                         display, << >>)
           ELSE IF PcOverflow(offset)
           THEN StepPanic("overflow", linked, memory, input, << >>)
           ELSE StepDone(linked, cc, PcPlus(offset), memory,
                         input, display, << >>)

\* registers[7] is written before the base register is read, and the offset
\* is the 9-bit field of the other PC-relative arms.
StepJSR ==
    /\ loc = "step"
    /\ Opcode(instruction_register) = JSR_OPCODE
    /\ LET linked == [registers EXCEPT ![7] = program_counter]
           offset == step_offset9(instruction_register)
       IN  IF BitAnd(instruction_register, \h0800) = 0
           THEN StepDone(linked, condition_code,
                         linked[RegMid(instruction_register)], memory, input,
                         display, << >>)
           ELSE IF PcOverflow(offset)
           THEN StepPanic("overflow", linked, memory, input, << >>)
           ELSE StepDone(linked, condition_code, PcPlus(offset), memory,
                         input, display, << >>)

StepAND ==
    /\ loc = "step"
    /\ Opcode(instruction_register) = AND_OPCODE
    /\ LET destination_register == RegHigh(instruction_register)
           source_one == AsI16(registers[RegMid(instruction_register)])
           source_two == SourceTwo(instruction_register)
           result == BitAnd(AsU16(source_one), AsU16(source_two))
       IN  StepDone([registers EXCEPT ![destination_register] = result],
                    update_condition_code(result), program_counter, memory,
                    input, display, << >>)

\* (source_one + source_two) as u16 of LDR and STR, where it does not panic.
BasePlus(ir) == AsU16(AsI16(registers[RegMid(ir)]) + step_offset6(ir))
BaseOverflow(ir) ==
    /\ overflow_checks
    /\ AddOverflowsI16(AsI16(registers[RegMid(ir)]), step_offset6(ir))

StepLDR ==
    /\ loc = "step"
    /\ Opcode(instruction_register) = LDR_OPCODE
    /\ LET destination_register == RegHigh(instruction_register)
           address == BasePlus(instruction_register)
           r == read_memory(memory, input, address)
       IN  IF BaseOverflow(instruction_register)
           THEN StepPanic("overflow", registers, memory, input, << >>)
           ELSE IF r.panic
           THEN StepPanic("index", registers, memory, input, << >>)
           ELSE StepDone([registers EXCEPT ![destination_register] = r.value],
                         update_condition_code(r.value), program_counter,
                         r.memory, r.input, display,
                         << Read(address, r.value) >>)

StepSTR ==
    /\ loc = "step"
    /\ Opcode(instruction_register) = STR_OPCODE
    /\ \E sink_ok \in BOOLEAN :
       LET destination_register == RegHigh(instruction_register)
           address == BasePlus(instruction_register)
           value == registers[destination_register]
           w == write_memory(memory, display, address, value, sink_ok)
       IN  IF BaseOverflow(instruction_register)
           THEN StepPanic("overflow", registers, memory, input, << >>)
           ELSE IF w.panic
           THEN StepPanic("index", registers, memory, input, << >>)
           ELSE StepDone(registers, condition_code, program_counter,
                         w.memory, input, w.display,
                         << Write(address, value) >>)

StepNOT ==
    /\ loc = "step"
    /\ Opcode(instruction_register) = NOT_OPCODE
    /\ LET destination_register == RegHigh(instruction_register)
           source_one == registers[RegMid(instruction_register)]
           result == BitNot16(source_one)
       IN  StepDone([registers EXCEPT ![destination_register] = result],
                    update_condition_code(result), program_counter, memory,
                    input, display, << >>)

StepLDI ==
    /\ loc = "step"
    /\ Opcode(instruction_register) = LDI_OPCODE
    /\ LET destination_register == RegHigh(instruction_register)
           offset == step_offset9(instruction_register)
           address == PcPlus(offset)
           indirect == read_memory(memory, input, address)
           r == read_memory(indirect.memory, indirect.input, indirect.value)
       IN  IF PcOverflow(offset)
           THEN StepPanic("overflow", registers, memory, input, << >>)
           ELSE IF indirect.panic
           THEN StepPanic("index", registers, memory, input, << >>)
           ELSE IF r.panic
           THEN StepPanic("index", registers, indirect.memory,
                          indirect.input,
                          << Read(address, indirect.value) >>)
           ELSE StepDone([registers EXCEPT ![destination_register] = r.value],
                         update_condition_code(r.value), program_counter,
                         r.memory, r.input, display,
                         << Read(address, indirect.value),
                            Read(indirect.value, r.value) >>)

StepSTI ==
    /\ loc = "step"
    /\ Opcode(instruction_register) = STI_OPCODE
    /\ \E sink_ok \in BOOLEAN :
       LET destination_register == RegHigh(instruction_register)
           offset == step_offset9(instruction_register)
           address == PcPlus(offset)
           indirect == read_memory(memory, input, address)
           value == registers[destination_register]
           w == write_memory(indirect.memory, display, indirect.value,
                             value, sink_ok)
       IN  IF PcOverflow(offset)
           THEN StepPanic("overflow", registers, memory, input, << >>)
           ELSE IF indirect.panic
           THEN StepPanic("index", registers, memory, input, << >>)
           ELSE IF w.panic
           THEN StepPanic("index", registers, indirect.memory,
                          indirect.input,
                          << Read(address, indirect.value) >>)
           ELSE StepDone(registers, condition_code, program_counter,
                         w.memory, indirect.input, w.display,
                         << Read(address, indirect.value),
                            Write(indirect.value, value) >>)

StepJMP ==
    /\ loc = "step"
    /\ Opcode(instruction_register) = JMP_OPCODE
    /\ StepDone(registers, condition_code,
                registers[RegMid(instruction_register)], memory, input,
                display, << >>)

StepLEA ==
    /\ loc = "step"
    /\ Opcode(instruction_register) = LEA_OPCODE
    /\ LET destination_register == RegHigh(instruction_register)
           offset == step_offset9(instruction_register)
           result == PcPlus(offset)
       IN  IF PcOverflow(offset)
           THEN StepPanic("overflow", registers, memory, input, << >>)
           ELSE StepDone([registers EXCEPT ![destination_register] = result],
                         update_condition_code(result), program_counter,
                         memory, input, display, << >>)

\* TRAP that links the address of the TRAP instruction, not the one after.
StepTRAP_links_instruction ==
    /\ loc = "step"
    /\ Opcode(instruction_register) = TRAP_OPCODE
    /\ LET trap_vector == BitAnd(instruction_register, \hFF)
       IN  StepDone([registers EXCEPT ![7] = fetched_from],
                    condition_code, MemGet(memory, trap_vector), memory,
                    input, display, << >>)

\* The vector is read from the array directly, not through read_memory.
StepTRAP ==
    /\ loc = "step"
    /\ Opcode(instruction_register) = TRAP_OPCODE
    /\ LET trap_vector == BitAnd(instruction_register, \hFF)
       IN  StepDone([registers EXCEPT ![7] = program_counter],
                    condition_code, MemGet(memory, trap_vector), memory,
                    input, display, << >>)

StepRTI ==
    /\ loc = "step"
    /\ Opcode(instruction_register) = RTI_OPCODE
    /\ StepDone(registers, condition_code, program_counter, memory, input,
                display, << >>)

StepReserved ==
    /\ loc = "step"
    /\ Opcode(instruction_register) = RESERVED_OP
    /\ StepDone(registers, condition_code, program_counter, memory, input,
                display, << >>)

Step ==
    \/ StepBR \/ StepADD \/ StepLD \/ StepST \/ StepJSR \/ StepAND
    \/ StepLDR \/ StepSTR \/ StepRTI \/ StepNOT \/ StepLDI \/ StepSTI
    \/ StepJMP \/ StepReserved \/ StepLEA \/ StepTRAP

Next ==
    \/ LoadOS \/ LoadData \/ LoadProgram
    \/ CheckClock \/ Fetch \/ Step \/ Trace

Spec == Init /\ [][Next]_vars

(***************************************************************************)
(* The codec applied to every word                                         *)
(***************************************************************************)

\* The field widths sign_extend is called with, and those step extends inline.
Widths == {5, 6, 9, 11}
StepWidths == {5, 6, 9}

\* A simulator that is constructed and never run.
SimIdle ==
    /\ new([kind |-> "InFile", data |-> << >>],
           [kind |-> "NoTrace", want |-> 0, userspace |-> FALSE])
    /\ overflow_checks = FALSE
    /\ loc = "idle"
    /\ panic_cause = "none"
    /\ cycles = 0
    /\ fetched_from = 0
    /\ bus = << >>
    /\ latched = << >>
    /\ kbdr_reads = 0
    /\ images = << >>

InitCodec ==
    /\ SimIdle
    /\ word \in 0..65535
    /\ cstage = "word"
    /\ extended = << >>
    /\ instr = [variant |-> "None"]
    /\ encoded = 0
    /\ UnitIdle

\* sign_extend(word, w) for each width, and the inline extensions of step.
SignExtend ==
    /\ cstage = "word"
    /\ extended' =
         [field |-> [w \in Widths |-> sign_extend(word, w)],
          inline |-> [w \in StepWidths |->
                        CASE w = 5 -> step_imm5(word)
                          [] w = 6 -> step_offset6(word)
                          [] w = 9 -> step_offset9(word)]]
    /\ cstage' = "extended"
    /\ UNCHANGED << word, instr, encoded, sim_vars, unit_vars >>

\* Instruction::from(word)
Decode ==
    /\ cstage = "word"
    /\ instr' = decode(word)
    /\ cstage' = "decoded"
    /\ UNCHANGED << word, extended, encoded, sim_vars, unit_vars >>

\* u16::from(instr)
Encode ==
    /\ cstage = "decoded"
    /\ encoded' = encode(instr)
    /\ cstage' = "encoded"
    /\ UNCHANGED << word, extended, instr, sim_vars, unit_vars >>

NextCodec == SignExtend \/ Decode \/ Encode

SpecCodec == InitCodec /\ [][NextCodec]_vars

(***************************************************************************)
(* The tracer applied to every opcode nibble                               *)
(***************************************************************************)

\* The masks tried: none, all, each single opcode, all but each single
\* opcode, and three mixed ones.
TraceMasks ==
    { \h0000, \hFFFF, \hA5A5, \h5A5A, \h8001 }
    \cup { 2 ^ n : n \in 0..15 } \cup { \hFFFF - 2 ^ n : n \in 0..15 }

TracerConfigs ==
    { [kind |-> "NoTrace", want |-> 0, userspace |-> FALSE] }
    \cup { [kind |-> "TraceFile", want |-> m, userspace |-> u] :
             m \in TraceMasks, u \in BOOLEAN }

\* The program counters tried, on both sides of 0x3000.
TracePcs == { \h0000, \h2FF0, \h2FFF, \h3000, \h3010, \hFFFF }

\* A simulator about to call trace(): an instruction of opcode nibble n has
\* run and the PC is at pc.
InitTracer ==
    /\ memory = MemSet(MemSet(<< >>, CLK, \h8000), DSR, \h8000)
    /\ registers = [i \in 0..7 |-> 0]
    /\ program_counter \in TracePcs
    /\ instruction_register \in { n * 4096 : n \in 0..15 }
    /\ condition_code = "Z"
    /\ input = [kind |-> "InFile", data |-> << >>]
    /\ display = [received |-> << >>, sink_error |-> FALSE,
                  returned_error |-> FALSE]
    /\ tracer \in TracerConfigs
    /\ trace_log = << >>
    /\ overflow_checks = FALSE
    /\ loc = "trace"
    /\ panic_cause = "none"
    /\ cycles = 0
    /\ fetched_from = 0
    /\ bus = << >>
    /\ latched = << >>
    /\ kbdr_reads = 0
    /\ images = << >>
    /\ CodecIdle
    /\ UnitIdle

NextTracer == Trace

SpecTracer == InitTracer /\ [][NextTracer]_vars

(***************************************************************************)
(* Instruction::execute, the arm of the subroutine jump                    *)
(***************************************************************************)

\* Self::JumpSubroutine(from_register, offset): R7 is written, then the
\* target is read from the registers or computed from the pc.
execute_JumpSubroutine(i, regs, pc, checks) ==
    LET linked == [regs EXCEPT ![7] = pc]
    IN  IF i.from_register
        THEN [registers |-> linked,
              pc |-> linked[Shr(BitAnd(AsU16(i.offset), \h01C0), 6)],
              panic |-> FALSE]
        ELSE IF checks /\ AddOverflowsI16(AsI16(pc), i.offset)
        THEN [registers |-> linked, pc |-> pc, panic |-> TRUE]
        ELSE [registers |-> linked, pc |-> AsU16(AsI16(pc) + i.offset),
              panic |-> FALSE]

(***************************************************************************)
(* The branch predictor                                                    *)
(***************************************************************************)

\* enum Predictor and enum Branch (the outcome of an instruction).
PredictorStates == { "StronglyNotTaken", "NotTaken", "Taken", "StronglyTaken" }
BranchOutcomes == { "Taken", "NotTaken", "Jump", "None" }

\* At most this many outcomes are given to the predictor.
MaxOutcomes == 4

\* pub fn predicts_branch(&self) -> bool
predicts_branch(p) ==
    CASE p \in { "StronglyNotTaken", "NotTaken" } -> FALSE
      [] p \in { "Taken", "StronglyTaken" } -> TRUE

\* A transition without the weak states: one outcome flips the prediction.
transition_one_bit(p, tran) ==
    CASE tran \in { "Jump", "None" } -> p
      [] tran = "Taken" -> "StronglyTaken"
      [] tran = "NotTaken" -> "StronglyNotTaken"

\* A transition in which one NotTaken outcome takes StronglyTaken straight
\* to NotTaken.
transition_abrupt_fall(p, tran) ==
    CASE tran \in { "Jump", "None" } -> p
      [] tran = "Taken" ->
           (CASE p = "StronglyNotTaken" -> "NotTaken"
              [] p = "NotTaken" -> "Taken"
              [] p = "Taken" -> "StronglyTaken"
              [] p = "StronglyTaken" -> p)
      [] tran = "NotTaken" ->
           (CASE p = "StronglyNotTaken" -> p
              [] p = "NotTaken" -> "StronglyNotTaken"
              [] p = "Taken" -> "NotTaken"
              [] p = "StronglyTaken" -> "NotTaken")

\* pub fn transition(self, tran: Branch) -> Self
transition(p, tran) ==
    CASE tran \in { "Jump", "None" } -> p
      [] tran = "Taken" ->
           (CASE p = "StronglyNotTaken" -> "NotTaken"
              [] p = "NotTaken" -> "Taken"
              [] p = "Taken" -> "StronglyTaken"
              [] p = "StronglyTaken" -> p)
      [] tran = "NotTaken" ->
           (CASE p = "StronglyNotTaken" -> p
              [] p = "NotTaken" -> "StronglyNotTaken"
              [] p = "Taken" -> "NotTaken"
              [] p = "StronglyTaken" -> "Taken")

\* Predictor::new(), beside a simulator that is never run.
InitPredictor ==
    /\ SimIdle
    /\ CodecIdle
    /\ UnitIdle

Transition ==
    /\ Len(outcomes) < MaxOutcomes
    /\ \E tran \in BranchOutcomes :
         /\ predictor' = transition(predictor, tran)
         /\ outcomes' = Append(outcomes, tran)
    /\ prediction' = "none"
    /\ UNCHANGED << file_reader, reads, mnemonics, mask, sim_vars, codec_vars >>

PredictsBranch ==
    /\ prediction = "none"
    /\ prediction' = IF predicts_branch(predictor) THEN "taken"
                     ELSE "not_taken"
    /\ UNCHANGED << predictor, outcomes, file_reader, reads, mnemonics, mask,
                    sim_vars, codec_vars >>

NextPredictor == Transition \/ PredictsBranch

SpecPredictor == InitPredictor /\ [][NextPredictor]_vars

(***************************************************************************)
(* The file-backed Reader, in its two revisions                            *)
(***************************************************************************)

\* The bytes an input file is made of: '2', '3' and NUL.
FileBytes == { \h32, \h33, \h00 }

\* The input files of at most MaxInput bytes.
ReaderFiles ==
    UNION { [1..n -> FileBytes] : n \in 0..MaxInput }

\* At most this many reads are made of one Reader.
MaxReads == 4

\* simulator/mod.rs, Reader::InFile: read_exact into the one-byte buffer;
\* Ok(1) when it is filled, Ok(0) otherwise.
mod_rs_read(data, buf) ==
    LET r == reader_read([kind |-> "InFile", data |-> data])
    IN  [result |-> "Ok", count |-> r.count,
         buf |-> IF r.count = 0 THEN buf ELSE r.byte, data |-> r.reader.data]

\* simulator/reader.rs, Reader::InFile: read into the one-byte buffer; the
\* count when it is positive, an error otherwise.
reader_rs_read(data, buf) ==
    IF data # << >>
    THEN [result |-> "Ok", count |-> 1, buf |-> Head(data), data |-> Tail(data)]
    ELSE [result |-> "Err", count |-> 0, buf |-> buf, data |-> data]

\* A Reader of either revision over an open file, and `let mut buf = [0; 1]`.
InitReader ==
    /\ SimIdle
    /\ CodecIdle
    /\ predictor = "NotTaken"
    /\ outcomes = << >>
    /\ prediction = "none"
    /\ \E revision \in { "mod.rs", "reader.rs" }, file \in ReaderFiles :
         file_reader = [revision |-> revision, file |-> file, data |-> file]
    /\ reads = << >>
    /\ mnemonics = [given |-> FALSE, values |-> << >>]
    /\ mask = [main |-> -1, bin |-> -1, from |-> -1]

LastBuf == IF reads = << >> THEN 0 ELSE reads[Len(reads)].buf

ReadDone(r) ==
    /\ file_reader' = [file_reader EXCEPT !.data = r.data]
    /\ reads' = Append(reads,
                       [result |-> r.result, count |-> r.count, buf |-> r.buf])
    /\ UNCHANGED << predictor, outcomes, prediction, mnemonics, mask,
                    sim_vars, codec_vars >>

ReadModRs ==
    /\ file_reader.revision = "mod.rs"
    /\ Len(reads) < MaxReads
    /\ ReadDone(mod_rs_read(file_reader.data, LastBuf))

ReadReaderRs ==
    /\ file_reader.revision = "reader.rs"
    /\ Len(reads) < MaxReads
    /\ ReadDone(reader_rs_read(file_reader.data, LastBuf))

NextReader == ReadModRs \/ ReadReaderRs

SpecReader == InitReader /\ [][NextReader]_vars

(***************************************************************************)
(* The tracer's instruction mask, as its three constructors build it       *)
(***************************************************************************)

\* The values valid_instruction accepts, in upper case, and two of them as
\* a user may type them.
Mnemonics ==
    { "BR", "ADD", "LD", "ST", "JSR", "JSRR", "AND", "LDR", "STR", "RTI",
      "NOT", "LDI", "STI", "JMP", "LEA", "TRAP" }
TypedMnemonics == Mnemonics \cup { "add", "Trap" }

\* instr.to_ascii_uppercase()
to_ascii_uppercase(typed) ==
    CASE typed = "add" -> "ADD"
      [] typed = "Trap" -> "TRAP"
      [] OTHER -> typed

\* The arms of the match on the mnemonic.
mnemonic_bit(name) ==
    CASE name = "BR" -> \h1
      [] name = "ADD" -> \h2
      [] name = "LD" -> \h4
      [] name = "ST" -> \h8
      [] name \in { "JSR", "JSRR" } -> \h10
      [] name = "AND" -> \h20
      [] name = "LDR" -> \h40
      [] name = "STR" -> \h80
      [] name = "RTI" -> \h100
      [] name = "NOT" -> \h200
      [] name = "LDI" -> \h400
      [] name = "STI" -> \h800
      [] name = "JMP" -> \h1000
      [] name = "LEA" -> \h4000
      [] name = "TRAP" -> \h8000

\* src/main.rs: the closure of the fold; the arms from "LDR" on yield the
\* bit alone.
main_rs_closure(acc, typed) ==
    LET name == to_ascii_uppercase(typed)
    IN  IF name \in { "BR", "ADD", "LD", "ST", "JSR", "JSRR", "AND" }
        THEN BitOr(acc, mnemonic_bit(name))
        ELSE mnemonic_bit(name)

\* bin/main.rs and simulator/tracer.rs: acc | match ...
or_closure(acc, typed) == BitOr(acc, mnemonic_bit(to_ascii_uppercase(typed)))

RECURSIVE main_rs_fold(_, _)
main_rs_fold(acc, instrs) ==
    IF instrs = << >> THEN acc
    ELSE main_rs_fold(main_rs_closure(acc, Head(instrs)), Tail(instrs))

RECURSIVE or_fold(_, _)
or_fold(acc, instrs) ==
    IF instrs = << >> THEN acc
    ELSE or_fold(or_closure(acc, Head(instrs)), Tail(instrs))

\* trace_instructions of get_tracer in src/main.rs, of get_tracer in
\* bin/main.rs, and of Tracer::from, when the trace file is given.
main_rs_trace_instructions(m) ==
    IF m.given THEN main_rs_fold(0, m.values) ELSE \hFFFF
bin_main_trace_instructions(m) ==
    IF m.given THEN or_fold(0, m.values) ELSE \hFFFF
tracer_from_trace_instructions(m) ==
    IF m.given THEN or_fold(0, m.values) ELSE \hFFFF

\* At most this many --instr options are given.
MaxMnemonics == 2

\* The --instr options: none, or a list of typed mnemonics.
InstrOptions ==
    { [given |-> FALSE, values |-> << >>] }
    \cup { [given |-> TRUE, values |-> v] :
             v \in UNION { [1..n -> TypedMnemonics] : n \in 1..MaxMnemonics } }

InitMask ==
    /\ SimIdle
    /\ CodecIdle
    /\ predictor = "NotTaken"
    /\ outcomes = << >>
    /\ prediction = "none"
    /\ file_reader = [revision |-> "none", file |-> << >>, data |-> << >>]
    /\ reads = << >>
    /\ mnemonics \in InstrOptions
    /\ mask = [main |-> -1, bin |-> -1, from |-> -1]

GetTracerMain ==
    /\ mask.main = -1
    /\ mask' = [mask EXCEPT !.main = main_rs_trace_instructions(mnemonics)]
    /\ UNCHANGED << predictor, outcomes, prediction, file_reader, reads,
                    mnemonics, sim_vars, codec_vars >>

GetTracerBin ==
    /\ mask.bin = -1
    /\ mask' = [mask EXCEPT !.bin = bin_main_trace_instructions(mnemonics)]
    /\ UNCHANGED << predictor, outcomes, prediction, file_reader, reads,
                    mnemonics, sim_vars, codec_vars >>

TracerFrom ==
    /\ mask.from = -1
    /\ mask' = [mask EXCEPT !.from = tracer_from_trace_instructions(mnemonics)]
    /\ UNCHANGED << predictor, outcomes, prediction, file_reader, reads,
                    mnemonics, sim_vars, codec_vars >>

NextMask == GetTracerMain \/ GetTracerBin \/ TracerFrom

SpecMask == InitMask /\ [][NextMask]_vars

(***************************************************************************)
(* Properties                                                              *)
(***************************************************************************)

Nibble(w) == w \div 4096

\* C1: decode is total: every 16-bit word decodes, without failing, to the
\* variant its bits 15..12 select, and a word with opcode 0xD decodes to
\* Reserved carrying bits 11..0 of the word unchanged.
C1_DecodeTotal ==
    cstage \in {"decoded", "encoded"} =>
        /\ instr.variant = InstructionVariants[Nibble(word) + 1]
        /\ Nibble(word) = 13 =>
             instr = [variant |-> "Reserved", extra |-> word % 4096]

\* A reserved word with non-zero low bits has been decoded.
C1_Witness ==
    /\ cstage = "decoded"
    /\ word = \hD123
    /\ instr.variant = "Reserved"
    /\ instr.extra = \h123

\* The words an assembler emits: the bits an instruction does not use are 0
\* (1 in the low six bits of NOT), as in the field table of the codec.
Canonical(w) ==
    CASE Nibble(w) \in {1, 5} -> BitAnd(w, \h20) # 0 \/ BitAnd(w, \h18) = 0
      [] Nibble(w) = 4  -> BitAnd(w, \h0800) # 0 \/ BitAnd(w, \h0E3F) = 0
      [] Nibble(w) = 8  -> BitAnd(w, \h0FFF) = 0
      [] Nibble(w) = 9  -> BitAnd(w, \h3F) = \h3F
      [] Nibble(w) = 12 -> BitAnd(w, \h0E3F) = 0
      [] Nibble(w) = 15 -> BitAnd(w, \h0F00) = 0
      [] OTHER -> TRUE

\* C2: round trip: for every 16-bit word w of each of the 16 opcode groups,
\* both JSR modes and negative PC-relative offsets included,
\* encode(decode(w)) = w.  Stated on the canonically encoded words, which the
\* claim covers and on which the encoder is meant to invert the decoder.
C2_RoundTrip == (cstage = "encoded" /\ Canonical(word)) => encoded = word

\* The two's-complement value of the low w bits of a word.
TwosComplement(val, w) ==
    LET f == val % (2 ^ w)
    IN  IF f >= 2 ^ (w - 1) THEN f - 2 ^ w ELSE f

\* C3: sign extension: for every width w in {5, 6, 9, 11} and every 16-bit
\* word the sign-extended field is the two's-complement value of the word's
\* low w bits, in -2^(w-1) .. 2^(w-1)-1, whatever the bits above the field;
\* the extensions step computes inline (widths 5, 6, 9) agree.
C3_SignExtension ==
    cstage = "extended" =>
        /\ \A w \in Widths :
             /\ extended.field[w] = TwosComplement(word, w)
             /\ extended.field[w] \in -(2 ^ (w - 1)) .. (2 ^ (w - 1)) - 1
        /\ \A w \in StepWidths : extended.inline[w] = TwosComplement(word, w)

\* A word whose 9-bit field is negative, whose 5-bit field is positive and
\* whose high bits are set has been extended: 0xE1EF -> -17 (9), 15 (5).
C3_Witness ==
    /\ cstage = "extended"
    /\ word = \hE1EF
    /\ extended.field[9] = -17
    /\ extended.field[5] = 15
    /\ extended.field[6] = -17
    /\ extended.field[11] = 495

ClockReady == BitAnd(MemGet(memory, CLK), \h8000) # 0

\* The opcodes whose arm writes a destination register and the condition code.
RegisterWriters ==
    { ADD_OPCODE, AND_OPCODE, NOT_OPCODE, LD_OPCODE, LDI_OPCODE, LDR_OPCODE,
      LEA_OPCODE }

\* C4: the condition code is always exactly one of Negative, Zero, Positive;
\* it is Zero until the run starts; and when ADD, AND, NOT, LD, LDI, LDR or
\* LEA has written its result v to the destination register, the condition
\* code is Zero iff v = 0, Negative iff bit 15 of v is set, Positive otherwise.
C4_ConditionCode ==
    /\ condition_code \in {"N", "Z", "P"}
    /\ (loc \in {"new", "os"} \/ cycles = 0) => condition_code = "Z"
    /\ (loc = "trace" /\ Opcode(instruction_register) \in RegisterWriters) =>
         LET v == registers[RegHigh(instruction_register)]
         IN  condition_code =
               IF v = 0 THEN "Z" ELSE IF v >= 32768 THEN "N" ELSE "P"

\* ADD R2,R1,#-1 with R1 = 0 has written 0xFFFF and left Negative, while R0
\* (the register written before) holds a positive value.
C4_Witness ==
    /\ loc = "trace"
    /\ instruction_register = \h147F
    /\ registers[2] = \hFFFF
    /\ registers[0] = 1
    /\ condition_code = "N"

\* The opcodes whose arm writes no destination register.
NonWriters ==
    { BR_OPCODE, ST_OPCODE, STR_OPCODE, STI_OPCODE, JSR_OPCODE, JMP_OPCODE,
      TRAP_OPCODE, RTI_OPCODE, RESERVED_OP }

\* C5: executing BR, ST, STR, STI, JSR (either mode), JMP, TRAP, RTI or the
\* reserved opcode leaves the condition code unchanged, in every state and
\* for every such word; JSR and TRAP set R7 (to the incremented PC) and no
\* other register, the others change no register.
C5_ConditionCodeFrame ==
    [][(loc = "step" /\ Opcode(instruction_register) \in NonWriters) =>
          /\ condition_code' = condition_code
          /\ \A i \in 0..6 : registers'[i] = registers[i]
          /\ IF Opcode(instruction_register) \in {JSR_OPCODE, TRAP_OPCODE}
             THEN registers'[7] = program_counter
             ELSE registers'[7] = registers[7]]_vars

\* JSR has run with the condition code Negative: R7 holds the return address
\* (a positive value) and the condition code is still Negative.
C5_Witness ==
    /\ loc = "trace"
    /\ Opcode(instruction_register) = JSR_OPCODE
    /\ registers[7] = \h3003
    /\ registers[0] = \hFFFF
    /\ condition_code = "N"

\* The opcodes that add a 9-bit offset to the PC.
PcRelative ==
    { BR_OPCODE, LD_OPCODE, ST_OPCODE, LDI_OPCODE, STI_OPCODE, LEA_OPCODE,
      JSR_OPCODE }

\* C6: fetch stores the word at PC into IR and sets PC to (PC + 1) mod 65536
\* before the instruction executes, for every PC; so LEA fetched from a
\* yields (a + 1 + offset) mod 65536 and a load or store fetched from a
\* accesses that address.
C6_FetchThenExecute ==
    /\ [][loc = "fetch" =>
            /\ loc' = "step"
            /\ instruction_register' = MemGet(memory, program_counter)
            /\ program_counter' = (program_counter + 1) % 65536]_vars
    /\ [][(loc = "step" /\ loc' = "trace"
           /\ Opcode(instruction_register) = LEA_OPCODE) =>
            registers'[RegHigh(instruction_register)] =
              (fetched_from + 1 + step_offset9(instruction_register)) % 65536
         ]_vars

\* C7: effective-address arithmetic never fails: whatever the PC or base
\* register b and the sign-extended offset o, the step completes with the
\* address (b + o) mod 65536, also when b + o leaves the signed 16-bit range.
C7_AddressArithmeticNeverFails ==
    /\ ~(loc = "panicked" /\ panic_cause = "overflow")
    /\ (loc = "trace" /\ Opcode(instruction_register) = LEA_OPCODE) =>
         registers[RegHigh(instruction_register)] =
           (fetched_from + 1 + step_offset9(instruction_register)) % 65536

DeviceAddresses == {KBSR, KBDR, DSR, DDR}

\* C8: every address 0..0xFFFF other than KBSR, KBDR, DSR and DDR is plain
\* storage: no read, write or fetch fails on an index (0xFFFF included), and
\* a word written to such an address is the word the address then holds.
C8_PlainStorage ==
    /\ ~(loc = "panicked" /\ panic_cause = "index")
    /\ \A k \in DOMAIN bus :
         (bus[k].op = "write" /\ bus[k].address \notin DeviceAddresses
          /\ k = Len(bus)) =>
             MemGet(memory, bus[k].address) = bus[k].value

\* C9: the run loop's only exit is the clock register: it is left only with
\* bit 15 of the word at 0xFFFE clear, while that bit is set the loop goes on
\* to another fetch-execute-trace cycle, and once execute has returned
\* nothing changes any more.
C9_ClockIsOnlyExit ==
    /\ [](loc \in {"halted", "panicked"} => ~ClockReady)
    /\ [][(loc = "fetch") => loc' = "step"]_vars
    /\ [][(loc = "halted") => UNCHANGED sim_vars]_vars

\* C10: halt on exhaustion: a read of KBSR that finds the input file without a
\* further byte returns 0 and clears bit 15 of CLK, so that the loop exits
\* after the current cycle.
C10_HaltOnExhaustion ==
    (/\ loc = "trace"
     /\ input.kind = "InFile"
     /\ \E k \in DOMAIN bus : bus[k] = Read(KBSR, 0)) => ~ClockReady

\* The bytes a reader has yet to deliver (a keyboard's polls that find no
\* event deliver none).
InputBytes(data) == SelectSeq(data, LAMBDA b : b >= 0)

\* The reader's next read delivers a byte.
ByteAvailable(reader) == reader.data # << >> /\ Head(reader.data) >= 0

\* C11: KBSR handshake: a read of KBSR while the input has a byte available
\* takes exactly one byte b from the input, leaves b in KBDR and returns
\* 0x8000, all within that read; over a run the bytes latched followed by the
\* bytes still in the input are the original input, so the bytes are latched
\* in their order and each at most once.
C11_KbsrHandshake ==
    /\ [][(loc = "step" /\ ByteAvailable(input)) =>
            \A k \in DOMAIN bus' :
              (bus'[k].op = "read" /\ bus'[k].address = KBSR) =>
                 /\ bus'[k].value = \h8000
                 /\ input'.data = Tail(input.data)
                 /\ MemGet(memory', KBDR) = Head(input.data)
                 /\ latched' = Append(latched, Head(input.data))]_vars
    /\ [](\E r \in Readers :
            /\ r.kind = input.kind
            /\ InputBytes(r.data) = latched \o InputBytes(input.data))

\* The file [0x32, 0x33] has been read through KBSR twice: 0x32 then 0x33 were
\* latched, KBDR holds 0x33 and the file is used up.
C11_Witness ==
    /\ loc = "trace"
    /\ input = [kind |-> "InFile", data |-> << >>]
    /\ latched = << \h32, \h33 >>
    /\ MemGet(memory, KBDR) = \h33
    /\ bus = << Read(KBSR, \h8000) >>

\* C12: a byte latched into KBDR is delivered by at most one read of KBDR: a
\* second (or later) read of KBDR since the last KBSR read that latched a
\* byte does not return that byte again.
C12_DeliveredOnce ==
    (loc = "trace" /\ latched # << >> /\ kbdr_reads >= 2) =>
        \A k \in DOMAIN bus :
          (bus[k].op = "read" /\ bus[k].address = KBDR) =>
             bus[k].value # latched[Len(latched)]

\* The accesses of a step that are writes to DDR.
DdrWrites(accesses) ==
    { k \in DOMAIN accesses :
        accesses[k].op = "write" /\ accesses[k].address = DDR }

\* C13: DDR output: write(DDR, v) to a sink that takes the bytes makes the
\* sink receive exactly the byte v & 0xFF, preceded by 0x0D when that byte is
\* 0x0A, and nothing else, appended to what it received before.
C13_DdrOutput ==
    [][(loc = "step" /\ ~display'.sink_error) =>
         \A k \in DdrWrites(bus') :
            LET low == bus'[k].value % 256
            IN  display'.received =
                  display.received
                    \o (IF low = \h0A THEN << \h0D, low >> ELSE << low >>)]_vars

\* C14: after every successful write to DDR the stored DDR word is 0 and a
\* read of DSR returns 0x8000; a read of DDR returns 0 in every reachable
\* state, whatever memory[DDR] holds.
C14_DisplayStatus ==
    /\ [][(loc = "step" /\ loc' = "trace" /\ ~display'.sink_error) =>
            \A k \in DdrWrites(bus') :
               /\ MemGet(memory', DDR) = 0
               /\ read_memory(memory', input', DSR).value = \h8000]_vars
    /\ [](/\ read_memory(memory, input, DDR).value = 0
          /\ \A k \in DOMAIN bus :
               (bus[k].op = "read" /\ bus[k].address = DDR) =>
                  bus[k].value = 0)

\* With DSR loaded as 0 and DDR as 0x1234, 'A' was written to DDR and DSR
\* then read: the read returned 0x8000 and memory[DDR] is 0.
C14_Witness ==
    /\ loc = "trace"
    /\ Len(images) = 3
    /\ display.received = << \h41 >>
    /\ bus = << Read(DSR, \h8000) >>
    /\ MemGet(memory, DDR) = 0

\* C15: output failure is not fatal: when the sink fails on a DDR write, the
\* write returns normally and the loop goes on, bit 15 of DSR is cleared, and
\* the Writer returns the failure to its caller.
C15_OutputFailure ==
    [][(loc = "step" /\ display'.sink_error /\ DdrWrites(bus') # {}) =>
         /\ loc' = "trace"
         /\ BitAnd(MemGet(memory', DSR), \h8000) = 0
         /\ display'.returned_error]_vars

\* The addresses write_memory ignores.
ReadOnlyAddresses == {KBSR, KBDR, DSR}

\* C16: a program write to KBSR, KBDR or DSR is ignored: for every value,
\* memory, registers, PC, condition code, input position and output are the
\* same after the store instruction as before it.
C16_IgnoredWrites ==
    [][(/\ loc = "step"
        /\ bus' # << >>
        /\ bus'[Len(bus')].op = "write"
        /\ bus'[Len(bus')].address \in ReadOnlyAddresses
        /\ bus'[1].address # KBSR \/ bus'[1].op = "write") =>
          /\ loc' = "trace"
          /\ \A a \in 0..\hFFFF : MemGet(memory', a) = MemGet(memory, a)
          /\ UNCHANGED << registers, program_counter, condition_code, input,
                          display >>]_vars

\* 'A' was stored to KBDR after 0x32 had been latched: KBDR still holds 0x32
\* and nothing reached the display.
C16_Witness ==
    /\ loc = "trace"
    /\ bus = << Write(KBDR, \h41) >>
    /\ latched = << \h32 >>
    /\ MemGet(memory, KBDR) = \h32
    /\ display.received = << >>

\* An image as the object-file format reads it: the origin, the number of
\* words after it, and the i-th of them (from 0).
ImageOrigin(buffer) == buffer[1] * 256 + buffer[2]
ImageLen(buffer) == (Len(buffer) - 2) \div 2
ImageWord(buffer, i) == buffer[2 * i + 3] * 256 + buffer[2 * i + 4]

\* A file that is an image: it opens, and holds an origin and whole words.
WellFormed(file) ==
    file.opened /\ Len(file.buffer) >= 2 /\ Len(file.buffer) % 2 = 0

\* The images among fs that cover addr, by their position in fs.
Covering(fs, addr) ==
    { k \in DOMAIN fs :
        \E i \in 0..(ImageLen(fs[k].buffer) - 1) :
            (ImageOrigin(fs[k].buffer) + i) % 65536 = addr }

\* The word the format puts at addr when the images fs are loaded in order
\* into a new simulator: that of the last image covering addr.
ExpectedWord(fs, addr) ==
    IF Covering(fs, addr) = {}
    THEN (IF addr \in {CLK, DSR} THEN \h8000 ELSE 0)
    ELSE LET k == CHOOSE m \in Covering(fs, addr) :
                    \A n \in Covering(fs, addr) : n <= m
             b == fs[k].buffer
         IN  ImageWord(b, (addr - ImageOrigin(b)) % 65536)

\* The addresses some image of fs covers.
Covered(fs) ==
    UNION { { (ImageOrigin(fs[k].buffer) + i) % 65536 :
                i \in 0..(ImageLen(fs[k].buffer) - 1) } : k \in DOMAIN fs }

\* C17: image load: once images with origin o and words w_0..w_(k-1) have
\* been loaded in sequence, for every origin (0xFFFF included) and length,
\* every load has succeeded, each address (o + i) mod 65536 holds the word of
\* the last image that covers it, every other address is unchanged, and the
\* PC is the origin of the last image.
C17_ImageLoad ==
    (/\ images # << >>
     /\ cycles = 0
     /\ \A k \in DOMAIN images : WellFormed(images[k])) =>
        /\ loc \in {"os", "data", "clock"}
        /\ program_counter = ImageOrigin(images[Len(images)].buffer)
        /\ \A addr \in Covered(images) \cup DOMAIN memory :
             MemGet(memory, addr) = ExpectedWord(images, addr)

\* C18: load errors are values: when the file given to load is missing or
\* unreadable, shorter than 2 bytes, or ends in half a word, the caller gets
\* an error, the process is not aborted, and the run loop is never entered.
C18_LoadErrors ==
    (images # << >> /\ ~WellFormed(images[Len(images)])) =>
        loc = "load_error"

\* C19: tracer filter: for every opcode nibble n, every pc, every mask and
\* both flag values, trace() writes a snapshot (wants is true) iff (the
\* user-space-only flag is off or pc >= 0x3000) and bit n of the mask is set;
\* the no-trace configuration never writes anything.
C19_TracerFilter ==
    (loc = "clock" /\ images = << >>) =>
        LET n == instruction_register \div 4096
            wanted == /\ tracer.kind = "TraceFile"
                      /\ ~tracer.userspace \/ program_counter >= \h3000
                      /\ (tracer.want \div (2 ^ n)) % 2 = 1
        IN  /\ trace_log # << >> <=> wanted
            /\ tracer.kind = "NoTrace" => trace_log = << >>
            /\ Len(trace_log) <= 1

\* With the mask selecting ADD only and user space only, an ADD at 0x3010 has
\* been traced.
C19_Witness ==
    /\ loc = "clock"
    /\ images = << >>
    /\ tracer = [kind |-> "TraceFile", want |-> \h0002, userspace |-> TRUE]
    /\ instruction_register = ADD_OPCODE
    /\ program_counter = \h3010
    /\ Len(trace_log) = 1

\* C20: JSR (either mode) and TRAP set R7 to the incremented PC, the address
\* of the instruction + 1; TRAP then sets the PC to the word stored at the
\* address given by the low 8 bits of IR, for every vector 0..255, with no
\* bounds or privilege check.
C20_LinkAndTrap ==
    [][(/\ loc = "step"
        /\ loc' = "trace"
        /\ Opcode(instruction_register) \in {JSR_OPCODE, TRAP_OPCODE}) =>
          /\ registers'[7] = (fetched_from + 1) % 65536
          /\ Opcode(instruction_register) = TRAP_OPCODE =>
               program_counter' = MemGet(memory, instruction_register % 256)
       ]_vars

\* TRAP x25 fetched from 0x3000 has run: R7 = 0x3001 and the PC is the word
\* the operating system stored at 0x0025.
C20_Witness ==
    /\ loc = "trace"
    /\ instruction_register = \hF025
    /\ fetched_from = \h3000
    /\ registers[7] = \h3001
    /\ program_counter = \h0026
    /\ MemGet(memory, \h0025) = \h0026

\* Bit k of a word.
Bit(v, k) == (v \div (2 ^ k)) % 2

\* C21: ADD and AND take their second operand from register IR[2:0] when bit
\* 5 of the instruction word is 0 and from the sign-extended 5-bit immediate
\* when it is 1; ADD writes (SR1 + operand) mod 65536 and AND the bitwise and
\* of the two 16-bit patterns to the destination register, for all register
\* values, and neither fails.
C21_AddAnd ==
    [][(/\ loc = "step"
        /\ Opcode(instruction_register) \in {ADD_OPCODE, AND_OPCODE}) =>
          LET ir == instruction_register
              sr1 == registers[(ir \div 64) % 8]
              operand == IF Bit(ir, 5) = 0
                         THEN registers[ir % 8]
                         ELSE TwosComplement(ir, 5) % 65536
              result == registers'[(ir \div 512) % 8]
          IN  /\ loc' = "trace"
              /\ result \in 0..65535
              /\ IF Opcode(ir) = ADD_OPCODE
                 THEN result = (sr1 + operand) % 65536
                 ELSE \A k \in 0..15 :
                        Bit(result, k) = Bit(sr1, k) * Bit(operand, k)]_vars

\* AND R0,R0,#0 ; ADD R0,R0,#5 ; ADD R0,R0,#3 has run: R0 = 8, Positive.
C21_Witness ==
    /\ loc = "trace"
    /\ fetched_from = \h3002
    /\ instruction_register = \h1023
    /\ registers[0] = 8
    /\ condition_code = "P"

\* The position of a predictor state between the two end states.
Rank(p) ==
    CASE p = "StronglyNotTaken" -> 0
      [] p = "NotTaken" -> 1
      [] p = "Taken" -> 2
      [] p = "StronglyTaken" -> 3

\* C22: branch predictor: a Taken outcome moves the state one step towards
\* StronglyTaken and a NotTaken outcome one step towards StronglyNotTaken,
\* both saturating at the end states; Jump and None leave the state
\* unchanged; the predictor predicts taken exactly in Taken and
\* StronglyTaken.
C22_Predictor ==
    /\ [][outcomes' # outcomes =>
            LET tran == outcomes'[Len(outcomes')]
                r == Rank(predictor)
            IN  Rank(predictor') =
                  CASE tran = "Taken" -> (IF r = 3 THEN 3 ELSE r + 1)
                    [] tran = "NotTaken" -> (IF r = 0 THEN 0 ELSE r - 1)
                    [] OTHER -> r]_vars
    /\ [](prediction # "none" =>
            (prediction = "taken" <=> predictor \in {"Taken", "StronglyTaken"}))

\* Three Taken outcomes from the new predictor: it has reached StronglyTaken,
\* stayed there, and predicts taken.
C22_Witness ==
    /\ outcomes = << "Taken", "Taken", "Taken" >>
    /\ predictor = "StronglyTaken"
    /\ prediction = "taken"

\* C23: the file-backed Reader yields the bytes of its file in order, one
\* byte per read call, and every read call after the last byte reports
\* exhaustion as an error, never a byte or a zero count.
C23_FileReader ==
    file_reader.revision # "none" =>
        \A k \in DOMAIN reads :
            IF k <= Len(file_reader.file)
            THEN /\ reads[k].result = "Ok"
                 /\ reads[k].count = 1
                 /\ reads[k].buf = file_reader.file[k]
            ELSE reads[k].result = "Err"

\* C24: JSR with bit 11 set jumps to (incremented PC + the sign-extended
\* 11-bit offset IR[10:0]) mod 65536, for every offset in -1024..1023; the
\* raw-word step and the decoded-instruction execute compute the same target
\* for every JSR word.
C24_JsrOffset ==
    [][(loc = "step" /\ Opcode(instruction_register) = JSR_OPCODE) =>
         LET ir == instruction_register
             e == execute_JumpSubroutine(decode(ir), registers,
                                         program_counter, overflow_checks)
         IN  /\ loc' = "trace"
             /\ ~e.panic
             /\ program_counter' = e.pc
             /\ Bit(ir, 11) = 1 =>
                   program_counter' =
                     (program_counter + TwosComplement(ir, 11)) % 65536]_vars

\* The condition-code flag now set is selected by the N/Z/P mask of ir.
Selected(ir, cc) ==
    \/ Bit(ir, 11) = 1 /\ cc = "N"
    \/ Bit(ir, 10) = 1 /\ cc = "Z"
    \/ Bit(ir, 9) = 1 /\ cc = "P"

\* C25: BR changes PC to (incremented PC + sign-extended 9-bit offset) iff
\* the condition-code flag currently set is selected by the instruction's
\* N/Z/P mask (bits 11, 10, 9), and otherwise leaves PC at the incremented
\* value; a mask of 000 never branches and a mask of 111 always branches, in
\* every reachable state.
C25_Branch ==
    [][(loc = "step" /\ Opcode(instruction_register) = BR_OPCODE) =>
         LET ir == instruction_register
             target == (program_counter + TwosComplement(ir, 9)) % 65536
         IN  /\ loc' = "trace"
             /\ program_counter' = IF Selected(ir, condition_code)
                                   THEN target ELSE program_counter
             /\ (ir \div 512) % 8 = 0 => program_counter' = program_counter
             /\ (ir \div 512) % 8 = 7 => program_counter' = target]_vars

\* C26: LDR and STR address memory at (base register + sign-extended 6-bit
\* offset) mod 65536: LDR with base 0x3000 and offset field 0x3F (-1) reads
\* address 0x2FFF, and STR stores the source register at that address and
\* changes no register.
C26_BaseOffset ==
    [][(/\ loc = "step"
        /\ Opcode(instruction_register) \in {LDR_OPCODE, STR_OPCODE}) =>
         LET ir == instruction_register
             base == registers[(ir \div 64) % 8]
             address == (base + TwosComplement(ir, 6)) % 65536
             r == (ir \div 512) % 8
         IN  /\ loc' = "trace"
             /\ Len(bus') = 1
             /\ bus'[1].address = address
             /\ IF Opcode(ir) = LDR_OPCODE
                THEN /\ bus'[1].op = "read"
                     /\ registers'[r] = bus'[1].value
                ELSE /\ bus'[1] = Write(address, registers[r])
                     /\ registers' = registers]_vars

\* C27: every memory access of the CPU goes through the read/write entry
\* points: the instruction fetch at PC and the TRAP vector lookup return what
\* read(address) would return and have its device side effects (a fetch with
\* PC = KBSR polls the input, a fetch with PC = DDR yields 0), never the raw
\* array contents.
C27_EntryPoints ==
    /\ [][loc = "fetch" =>
            LET r == read_memory(memory, input, program_counter)
            IN  IF r.panic
                THEN loc' = "panicked"
                ELSE /\ loc' = "step"
                     /\ instruction_register' = r.value
                     /\ memory' = r.memory
                     /\ input' = r.input]_vars
    /\ [][(/\ loc = "step"
           /\ Opcode(instruction_register) = TRAP_OPCODE) =>
            LET r == read_memory(memory, input, instruction_register % 256)
            IN  /\ loc' = "trace"
                /\ program_counter' = r.value
                /\ memory' = r.memory
                /\ input' = r.input]_vars

\* C28: each cycle runs fetch, then execute, then consults the tracer exactly
\* once; the filter receives the opcode nibble of IR and the PC as
\* incremented by fetch (address of the executed instruction + 1), so under
\* user-space-only whether an instruction is traced depends on its opcode
\* and on where it was fetched from, not on where it jumps; the emitted
\* snapshot holds IR, R0..R7, PC and condition code as they are after the
\* instruction executed.
C28_TracePerCycle ==
    /\ [][/\ loc' = "step" => loc = "fetch"
          /\ loc' = "trace" => loc = "step"
          /\ loc = "trace" => loc' = "clock"
          /\ trace_log' # trace_log => loc = "trace"]_vars
    /\ [][loc = "trace" =>
            LET incremented == (fetched_from + 1) % 65536
                wanted ==
                    /\ tracer.kind = "TraceFile"
                    /\ ~tracer.userspace \/ incremented >= \h3000
                    /\ Bit(tracer.want, instruction_register \div 4096) = 1
            IN  trace_log' =
                  IF wanted
                  THEN Append(trace_log,
                              [ir |-> instruction_register,
                               registers |-> registers,
                               pc |-> program_counter,
                               cc |-> condition_code])
                  ELSE trace_log]_vars

\* The opcode nibble a mnemonic names.
OpcodeNibble(name) ==
    CASE name = "BR" -> 0
      [] name = "ADD" -> 1
      [] name = "LD" -> 2
      [] name = "ST" -> 3
      [] name \in { "JSR", "JSRR" } -> 4
      [] name = "AND" -> 5
      [] name = "LDR" -> 6
      [] name = "STR" -> 7
      [] name = "RTI" -> 8
      [] name = "NOT" -> 9
      [] name = "LDI" -> 10
      [] name = "STI" -> 11
      [] name = "JMP" -> 12
      [] name = "LEA" -> 14
      [] name = "TRAP" -> 15

\* The mask is the union of the bits of the opcodes named, or 0xFFFF when no
\* --instr option was given.
UnionOfNamed(want) ==
    IF mnemonics.given
    THEN \A n \in 0..15 :
           Bit(want, n) = 1 <=>
             \E k \in DOMAIN mnemonics.values :
               OpcodeNibble(to_ascii_uppercase(mnemonics.values[k])) = n
    ELSE want = \hFFFF

\* C29: tracer mask construction: for every list of --instr mnemonics, in any
\* order and with repetitions, the resulting 16-bit mask has bit n set iff
\* one of the named mnemonics has opcode nibble n; with no --instr option the
\* mask is 0xFFFF.  Stated of each of the three constructors.
C29_MaskConstruction ==
    /\ mask.main # -1 => UnionOfNamed(mask.main)
    /\ mask.bin # -1 => UnionOfNamed(mask.bin)
    /\ mask.from # -1 => UnionOfNamed(mask.from)

\* C30: JSR in register mode (bit 11 clear) sets PC to the value the base
\* register IR[8:6] held before the instruction executed, for every base
\* register, R7 included, while R7 receives the incremented PC.  Stated of
\* the raw-word step and of the decoded-instruction execute.
C30_JsrrBase ==
    [][(/\ loc = "step"
        /\ Opcode(instruction_register) = JSR_OPCODE
        /\ Bit(instruction_register, 11) = 0) =>
         LET ir == instruction_register
             base == registers[(ir \div 64) % 8]
             e == execute_JumpSubroutine(decode(ir), registers,
                                         program_counter, overflow_checks)
         IN  /\ loc' = "trace"
             /\ program_counter' = base
             /\ registers'[7] = program_counter
             /\ e.pc = base
             /\ e.registers[7] = program_counter]_vars

\* C31: after any sequence of load calls (operating system, data images,
\* program) the PC equals the origin of the image loaded last, so execution
\* starts at the first word of the user program; registers, IR and condition
\* code are unchanged by loading.
C31_LoadSetsPc ==
    /\ [][images' # images =>
            LET file == images'[Len(images')]
            IN  /\ registers' = registers
                /\ instruction_register' = instruction_register
                /\ condition_code' = condition_code
                /\ WellFormed(file) =>
                     /\ loc' \in {"os", "data", "clock"}
                     /\ program_counter' = ImageOrigin(file.buffer)]_vars
    /\ [][(loc = "fetch" /\ cycles = 1) =>
            /\ loc' = "step"
            /\ fetched_from' = ImageOrigin(images[Len(images)].buffer)
            /\ instruction_register' = MemGet(memory, fetched_from')]_vars

\* The outcomes of conditional branches in a history: Jump and None removed.
BranchHistory(h) == SelectSeq(h, LAMBDA o : o \in {"Taken", "NotTaken"})

\* The last two conditional-branch outcomes of the history are both o.
LastTwo(h, o) ==
    LET b == BranchHistory(h)
    IN  Len(b) >= 2 /\ b[Len(b)] = o /\ b[Len(b) - 1] = o

\* C32: predictor hysteresis: from every predictor state and after any
\* history of outcomes, two consecutive Taken outcomes lead to a state that
\* predicts taken and two consecutive NotTaken outcomes to a state that
\* predicts not taken, while a single contrary outcome from StronglyTaken or
\* StronglyNotTaken does not change the prediction; Jump and None outcomes
\* interleaved anywhere do not affect this.
C32_Hysteresis ==
    /\ [](LastTwo(outcomes, "Taken") =>
            /\ predicts_branch(predictor)
            /\ prediction # "not_taken")
    /\ [](LastTwo(outcomes, "NotTaken") =>
            /\ ~predicts_branch(predictor)
            /\ prediction # "taken")
    /\ [][outcomes' # outcomes =>
            LET tran == outcomes'[Len(outcomes')]
            IN  /\ (predictor = "StronglyTaken" /\ tran = "NotTaken") =>
                     predicts_branch(predictor')
                /\ (predictor = "StronglyNotTaken" /\ tran = "Taken") =>
                     ~predicts_branch(predictor')
                /\ tran \in {"Jump", "None"} => predictor' = predictor]_vars

\* From StronglyNotTaken, Taken, Jump, Taken: the predictor predicts taken.
C32_Witness ==
    /\ outcomes = << "NotTaken", "Taken", "Jump", "Taken" >>
    /\ predictor = "Taken"
    /\ prediction = "taken"

====
